---- MODULE Spec2Model ----
(***************************************************************************)
(* A model of src/web3/LP/analyze_swaps.py: the log classifier             *)
(* (analyze_transaction_logs), the amount formatter (format_amount), the   *)
(* flow aggregator (calculate_token_flows) and the summary builder         *)
(* (generate_summary).                                                     *)
(*                                                                         *)
(* Representation.                                                         *)
(*  - A Python str is a sequence of one-character strings, so that         *)
(*    slicing (s[-40:], s[:8]), lower(), startswith(), concatenation and   *)
(*    int(s, 16) are computed rather than assumed.  The characters are     *)
(*    those of Latin-1 (U+0000 to U+00FF), the ones a string of this       *)
(*    language can hold.                                                   *)
(*  - A Python int is a record [neg, dig]: a sign and the big-endian       *)
(*    decimal digits of the magnitude without leading zeros (zero is       *)
(*    <<0>>).  Arithmetic on magnitudes is carried on limbs: the           *)
(*    little-endian base-10000 digits, without high zero limbs (zero is    *)
(*    <<>>).                                                               *)
(*  - A Python float is an IEEE 754 double, the record [neg, man, exp]     *)
(*    with the value man * 2^exp: man holds the decimal digits of an odd   *)
(*    integer below 2^53 (<<0>> with exp 0 for zero).  Quotients and sums  *)
(*    are rounded to the nearest double, ties to even, as the hardware     *)
(*    does.  inf is [man |-> <<1>>, exp |-> 1024] and nan is               *)
(*    [man |-> <<0>>, exp |-> 1024].  No quotient or sum of the program    *)
(*    is below 10^-18 in magnitude without being zero, so the subnormal    *)
(*    range and the negative zero are never met.                           *)
(*  - A dict is a function whose domain is its key set; dict.get(k, d) is  *)
(*    Get.                                                                 *)
(*  - A call that can raise yields an outcome: Return(v) when it returns   *)
(*    v, Raise(name) when it raises the exception called name.  A loop     *)
(*    carries the name in the field raised of its accumulator and stops    *)
(*    working once it is set.                                              *)
(***************************************************************************)
EXTENDS Integers, Sequences, FiniteSets, TLC

VARIABLES pc, logs, swaps, transfers, amount, token_symbol, result

vars == <<pc, logs, swaps, transfers, amount, token_symbol, result>>

(***************************************************************************)
(* Strings                                                                 *)
(***************************************************************************)
Repeat(c, n) == [i \in 1..n |-> c]

\* s[-n:]
Suffix(s, n) == IF Len(s) <= n THEN s ELSE SubSeq(s, Len(s) - n + 1, Len(s))

\* s[:n]
Prefix(s, n) == IF Len(s) <= n THEN s ELSE SubSeq(s, 1, n)

\* s.startswith(p)
StartsWith(s, p) == Len(s) >= Len(p) /\ SubSeq(s, 1, Len(p)) = p

\* the cased characters of Latin-1 that lower() changes, and what it makes
\* of them
UPPER == <<"A","B","C","D","E","F","G","H","I","J","K","L","M","N","O","P","Q","R","S","T","U","V","W","X","Y","Z",
           "À","Á","Â","Ã","Ä","Å","Æ","Ç","È","É","Ê","Ë","Ì","Í","Î","Ï","Ð","Ñ","Ò","Ó","Ô","Õ","Ö","Ø","Ù","Ú","Û","Ü","Ý","Þ">>

LOWER == <<"a","b","c","d","e","f","g","h","i","j","k","l","m","n","o","p","q","r","s","t","u","v","w","x","y","z",
           "à","á","â","ã","ä","å","æ","ç","è","é","ê","ë","ì","í","î","ï","ð","ñ","ò","ó","ô","õ","ö","ø","ù","ú","û","ü","ý","þ">>

LowerChar(c) ==
    LET I == {i \in 1..Len(UPPER) : UPPER[i] = c}
    IN  IF I = {} THEN c ELSE LOWER[CHOOSE i \in I : TRUE]

\* s.lower()
Lower(s) == [i \in 1..Len(s) |-> LowerChar(s[i])]

\* d.get(k, default)
Get(d, k, default) == IF k \in DOMAIN d THEN d[k] ELSE default

(***************************************************************************)
(* Integers of unbounded size                                              *)
(***************************************************************************)
DigIsZero(dig) == dig = <<0>>

RECURSIVE StripZeros(_)
StripZeros(dig) ==
    IF Len(dig) > 1 /\ Head(dig) = 0 THEN StripZeros(Tail(dig)) ELSE dig

IntOf(neg, dig) == [neg |-> neg /\ ~DigIsZero(dig), dig |-> dig]

ZeroInt == IntOf(FALSE, <<0>>)

IsZero(n) == DigIsZero(n.dig)

\* n > 0
IsPositive(n) == ~n.neg /\ ~IsZero(n)

DIGITS == <<"0","1","2","3","4","5","6","7","8","9">>

DigitsToStr(dig) == [i \in 1..Len(dig) |-> DIGITS[dig[i] + 1]]

\* str(n) raises ValueError: the interpreter converts no int of more than
\* 4300 digits (its default sys.int_max_str_digits)
StrRaises(n) == Len(n.dig) > 4300

(***************************************************************************)
(* Arithmetic on limbs                                                     *)
(***************************************************************************)
\* a without its high zero limbs
Trim(a) ==
    LET n == Len(a)
        k == CHOOSE i \in 0..n : (i = 0 \/ a[i] # 0) /\ \A j \in (i + 1)..n : a[j] = 0
    IN  SubSeq(a, 1, k)

\* the limbs of the magnitude with the decimal digits dig
LimbsOf(dig) ==
    LET n    == Len(dig)
        D(i) == IF i >= 1 THEN dig[i] ELSE 0
    IN  Trim([j \in 1..((n + 3) \div 4) |->
                 D(n - 4 * (j - 1)) + 10 * D(n - 4 * (j - 1) - 1)
                 + 100 * D(n - 4 * (j - 1) - 2) + 1000 * D(n - 4 * (j - 1) - 3)])

\* the decimal digits of the magnitude with the limbs a
DigitsOf(a) ==
    LET n == Len(a)
    IN  IF n = 0 THEN <<0>>
        ELSE StripZeros([i \in 1..(4 * n) |->
                 (a[n - ((i - 1) \div 4)] \div (10 ^ (3 - ((i - 1) % 4)))) % 10])

\* the limbs of a carry
CarryLimbs(c) ==
    IF c = 0 THEN <<>>
    ELSE IF c < 10000 THEN <<c>>
    ELSE <<c % 10000, c \div 10000>>

\* limbs lo..hi of a * m + c, and the carry out of limb hi
RECURSIVE MulAddRange(_, _, _, _, _)
MulAddRange(a, lo, hi, m, c) ==
    IF lo = hi
    THEN LET v == a[lo] * m + c
         IN  [limbs |-> <<v % 10000>>, carry |-> v \div 10000]
    ELSE LET mid  == (lo + hi) \div 2
             low  == MulAddRange(a, lo, mid, m, c)
             high == MulAddRange(a, mid + 1, hi, m, low.carry)
         IN  [limbs |-> low.limbs \o high.limbs, carry |-> high.carry]

\* a * m + c, for 0 < m <= 2^17 and 0 <= c < m
LMulAdd(a, m, c) ==
    LET Joined(r) == r.limbs \o CarryLimbs(r.carry)
    IN  IF a = <<>> THEN CarryLimbs(c) ELSE Joined(MulAddRange(a, 1, Len(a), m, c))

Limb(a, i) == IF i <= Len(a) THEN a[i] ELSE 0

\* limbs lo..hi of a + b + c, and the carry out of limb hi
RECURSIVE AddRange(_, _, _, _, _)
AddRange(a, b, lo, hi, c) ==
    IF lo = hi
    THEN LET v == Limb(a, lo) + Limb(b, lo) + c
         IN  [limbs |-> <<v % 10000>>, carry |-> v \div 10000]
    ELSE LET mid  == (lo + hi) \div 2
             low  == AddRange(a, b, lo, mid, c)
             high == AddRange(a, b, mid + 1, hi, low.carry)
         IN  [limbs |-> low.limbs \o high.limbs, carry |-> high.carry]

\* a + b
LAdd(a, b) ==
    LET Joined(r) == r.limbs \o CarryLimbs(r.carry)
    IN  IF a = <<>> THEN b
        ELSE IF b = <<>> THEN a
        ELSE Joined(AddRange(a, b, 1, IF Len(a) >= Len(b) THEN Len(a) ELSE Len(b), 0))

\* limbs lo..hi of a - b - borrow, and the borrow out of limb hi
RECURSIVE SubRange(_, _, _, _, _)
SubRange(a, b, lo, hi, borrow) ==
    IF lo = hi
    THEN LET v == a[lo] - Limb(b, lo) - borrow
         IN  [limbs |-> <<IF v < 0 THEN v + 10000 ELSE v>>,
              borrow |-> IF v < 0 THEN 1 ELSE 0]
    ELSE LET mid  == (lo + hi) \div 2
             low  == SubRange(a, b, lo, mid, borrow)
             high == SubRange(a, b, mid + 1, hi, low.borrow)
         IN  [limbs |-> low.limbs \o high.limbs, borrow |-> high.borrow]

\* a - b, for a >= b
LSub(a, b) == IF a = <<>> THEN a ELSE Trim(SubRange(a, b, 1, Len(a), 0).limbs)

\* a < b
LLess(a, b) ==
    IF Len(a) # Len(b) THEN Len(a) < Len(b)
    ELSE \E i \in 1..Len(a) :
            a[i] < b[i] /\ \A j \in (i + 1)..Len(a) : a[j] = b[j]

\* a * 2^s
RECURSIVE LShl(_, _)
LShl(a, s) ==
    IF s = 0 \/ a = <<>> THEN a
    ELSE IF s <= 17 THEN LMulAdd(a, 2 ^ s, 0)
    ELSE LShl(LShl(a, s \div 2), s - (s \div 2))

RECURSIVE LMulPow5(_, _)
LMulPow5(a, k) ==
    IF k = 0 \/ a = <<>> THEN a
    ELSE IF k <= 7 THEN LMulAdd(a, 5 ^ k, 0)
    ELSE LMulPow5(LMulPow5(a, k \div 2), k - (k \div 2))

LMulPow10(a, k) ==
    IF a = <<>> THEN a ELSE Repeat(0, k \div 4) \o LMulAdd(a, 10 ^ (k % 4), 0)

\* a + b on ints
IntAdd(a, b) ==
    LET Sum(A, B) ==
            IF a.neg = b.neg THEN IntOf(a.neg, DigitsOf(LAdd(A, B)))
            ELSE IF LLess(A, B) THEN IntOf(b.neg, DigitsOf(LSub(B, A)))
            ELSE IntOf(a.neg, DigitsOf(LSub(A, B)))
    IN  Sum(LimbsOf(a.dig), LimbsOf(b.dig))

\* a - b on ints
IntSub(a, b) == IntAdd(a, IntOf(~b.neg, b.dig))

(***************************************************************************)
(* Outcomes.  An operation that can raise yields Raise(name) when it       *)
(* raises the exception name and Return(v) when it returns v.              *)
(***************************************************************************)
Return(v) == [raised |-> "", value |-> v]

Raise(name) == [raised |-> name]

IsRaised(outcome) == outcome.raised # ""

\* str(n)
IntToStr(n) ==
    IF StrRaises(n) THEN Raise("ValueError")
    ELSE Return((IF n.neg THEN <<"-">> ELSE <<>>) \o DigitsToStr(n.dig))

(***************************************************************************)
(* int(s, 16): white space around the literal, a sign, the base prefix,    *)
(* and single underscores after the prefix and between digits.             *)
(***************************************************************************)
HEX_LOWER == <<"0","1","2","3","4","5","6","7","8","9","a","b","c","d","e","f">>

HEX_UPPER == <<"0","1","2","3","4","5","6","7","8","9","A","B","C","D","E","F">>

IsHexChar(c) == \E i \in 1..16 : HEX_LOWER[i] = c \/ HEX_UPPER[i] = c

HexVal(c) == (CHOOSE i \in 1..16 : HEX_LOWER[i] = c \/ HEX_UPPER[i] = c) - 1

\* the characters int() strips: tab, line feed, vertical tab, form feed,
\* carriage return, space, next line (U+0085), no-break space (U+00A0)
WHITESPACE == {"\t", "\n", "", "\f", "\r", " ", "", " "}

\* s.strip()
Strip(s) ==
    LET I == {i \in 1..Len(s) : s[i] \notin WHITESPACE}
    IN  IF I = {} THEN <<>>
        ELSE SubSeq(s, CHOOSE i \in I : \A j \in I : i <= j,
                       CHOOSE i \in I : \A j \in I : j <= i)

HasSign(s) == s # <<>> /\ s[1] \in {"+", "-"}

StripSign(s) == IF HasSign(s) THEN Tail(s) ELSE s

\* the prefix 0x or 0X is skipped, and one underscore after it
StripBasePrefix(s) ==
    IF Len(s) >= 2 /\ s[1] = "0" /\ s[2] \in {"x", "X"}
    THEN IF Len(s) >= 3 /\ s[3] = "_" THEN SubSeq(s, 4, Len(s)) ELSE SubSeq(s, 3, Len(s))
    ELSE s

\* the digits of the literal, with the underscores between them
HexDigitsOf(s) == StripBasePrefix(StripSign(Strip(s)))

\* int(s, 16) does not raise ValueError
IsHexLiteral(s) ==
    LET WellFormed(h) ==
            /\ h # <<>>
            /\ h[1] # "_"
            /\ h[Len(h)] # "_"
            /\ \A i \in 1..Len(h) : IsHexChar(h[i]) \/ h[i] = "_"
            /\ \A i \in 1..(Len(h) - 1) : ~(h[i] = "_" /\ h[i + 1] = "_")
    IN  WellFormed(HexDigitsOf(s))

\* the value of the hexadecimal digits h[lo..hi], as limbs
RECURSIVE HexValue(_, _, _)
HexValue(h, lo, hi) ==
    IF lo = hi THEN CarryLimbs(HexVal(h[lo]))
    ELSE LET mid == (lo + hi) \div 2
         IN  LAdd(LShl(HexValue(h, lo, mid), 4 * (hi - mid)), HexValue(h, mid + 1, hi))

IsNoUnderscore(c) == c # "_"

\* int(s, 16), for s with IsHexLiteral(s)
ParseHex(s) ==
    LET Negative(t) == HasSign(t) /\ t[1] = "-"
        Value(h)    == DigitsOf(HexValue(h, 1, Len(h)))
    IN  IntOf(Negative(Strip(s)), Value(SelectSeq(HexDigitsOf(s), IsNoUnderscore)))

(***************************************************************************)
(* Floats                                                                  *)
(***************************************************************************)
ZeroFloat == [neg |-> FALSE, man |-> <<0>>, exp |-> 0]

Infinity(neg) == [neg |-> neg, man |-> <<1>>, exp |-> 1024]

NaN == [neg |-> FALSE, man |-> <<0>>, exp |-> 1024]

IsInf(x) == x.man = <<1>> /\ x.exp = 1024

IsNaN(x) == x.man = <<0>> /\ x.exp = 1024

\* the double neg * man * 2^exp, for limbs man # <<>> of a magnitude below
\* 2^53 * 2^k: the factors 2 of man are moved to the exponent, man / 16 being
\* man * 625 / 10000
RECURSIVE OddMantissa(_, _, _)
OddMantissa(neg, man, exp) ==
    LET k == IF man[1] % 16 = 0 THEN 4 ELSE IF man[1] % 2 = 0 THEN 1 ELSE 0
    IN  IF k = 0 THEN [neg |-> neg, man |-> DigitsOf(man), exp |-> exp]
        ELSE OddMantissa(neg, Tail(LMulAdd(man, IF k = 4 THEN 625 ELSE 5000, 0)), exp + k)

\* the largest x * 2^s, s >= 0, that is at most bound, for 0 < x <= bound,
\* found from x * 2^s <= bound in steps of k bits, k halving
RECURSIVE Fit(_, _, _, _)
Fit(x, s, bound, k) ==
    LET Step(y) == IF LLess(bound, y) THEN Fit(x, s, bound, k \div 2)
                   ELSE Fit(y, s + k, bound, k)
    IN  IF k = 0 THEN [x |-> x, s |-> s] ELSE Step(LMulAdd(x, 2 ^ k, 0))

\* a shift s with x * 2^s <= bound: a limb holds more than 13 bits
FirstShift(x, bound) ==
    IF Len(bound) > Len(x) + 1 THEN 13 * (Len(bound) - Len(x) - 1) ELSE 0

FitFrom(x, bound) ==
    LET s == FirstShift(x, bound) IN Fit(LShl(x, s), s, bound, 16)

\* e with 2^e <= N / D < 2^(e + 1), for N, D > 0
BinaryExponent(N, D) ==
    LET Negative(f) == IF f.x = D THEN 0 - f.s ELSE 0 - f.s - 1
    IN  IF LLess(N, D) THEN Negative(FitFrom(N, D)) ELSE FitFrom(D, N).s

\* dig + 1
Increment(dig) ==
    LET n == Len(dig)
        k == CHOOSE i \in 0..n : (i = 0 \/ dig[i] # 9) /\ \A j \in (i + 1)..n : dig[j] = 9
    IN  IF k = 0 THEN <<1>> \o Repeat(0, n)
        ELSE [i \in 1..n |-> IF i < k THEN dig[i] ELSE IF i = k THEN dig[i] + 1 ELSE 0]

\* dig with its k low digits dropped, the result rounded half to even
RoundHalfEven(dig, k) ==
    LET n     == Len(dig)
        q     == IF n > k THEN SubSeq(dig, 1, n - k) ELSE <<0>>
        r     == IF n >= k THEN SubSeq(dig, n - k + 1, n) ELSE Repeat(0, k - n) \o dig
        rest0 == \A i \in 2..k : r[i] = 0
        up    == \/ r[1] > 5
                 \/ r[1] = 5 /\ ~rest0
                 \/ r[1] = 5 /\ rest0 /\ q[Len(q)] % 2 = 1
    IN  IF k = 0 THEN dig ELSE IF up THEN Increment(q) ELSE q

TwoTo53 == <<9,0,0,7,1,9,9,2,5,4,7,4,0,9,9,2>>

\* The double nearest to (N / 10^d) * 2^e0, ties to even.  With e the binary
\* exponent of N / 10^d, the 53-bit mantissa is N * 2^(52 - e) / 10^d rounded
\* to an integer; for e > 52 the division by 2^(e - 52) is a multiplication
\* by 5^(e - 52) and k more decimal digits dropped.
RoundToDouble(neg, N, d, e0) ==
    LET Normal(q, x) ==
            IF x > 971 \/ (x = 971 /\ q = TwoTo53) THEN Infinity(neg)
            ELSE OddMantissa(neg, LimbsOf(q), x)
        Rounded(e) ==
            Normal(RoundHalfEven(DigitsOf(IF e <= 52 THEN LShl(N, 52 - e)
                                          ELSE LMulPow5(N, e - 52)),
                                 IF e <= 52 THEN d ELSE d + e - 52),
                   e - 52 + e0)
    IN  IF N = <<>> THEN ZeroFloat
        ELSE IF d = 0 /\ e0 <= 971 /\ LLess(N, LimbsOf(TwoTo53))
        THEN OddMantissa(neg, N, e0)
        ELSE Rounded(BinaryExponent(N, LMulPow10(<<1>>, d)))

MinExp(x, y) == IF x.exp <= y.exp THEN x.exp ELSE y.exp

\* the magnitude of x in units of 2^e, e <= x.exp
MagAt(x, e) == LShl(LimbsOf(x.man), x.exp - e)

FloatAdd(x, y) ==
    LET Sum(X, Y, e) ==
            IF x.neg = y.neg THEN RoundToDouble(x.neg, LAdd(X, Y), 0, e)
            ELSE RoundToDouble(IF LLess(X, Y) THEN y.neg ELSE x.neg,
                               IF LLess(X, Y) THEN LSub(Y, X) ELSE LSub(X, Y), 0, e)
        At(e) == Sum(MagAt(x, e), MagAt(y, e), e)
    IN  IF IsNaN(x) \/ IsNaN(y) \/ (IsInf(x) /\ IsInf(y) /\ x.neg # y.neg) THEN NaN
        ELSE IF IsInf(x) THEN x
        ELSE IF IsInf(y) THEN y
        ELSE At(MinExp(x, y))

Negated(x) == IF x.man = <<0>> THEN x ELSE [x EXCEPT !.neg = ~@]

FloatSub(x, y) == FloatAdd(x, Negated(y))

\* |x| < |y|, for finite x and y: a mantissa is below 2^53, so exponents 53
\* apart decide
MagLess(x, y) ==
    IF x.man = <<0>> THEN y.man # <<0>>
    ELSE IF y.man = <<0>> THEN FALSE
    ELSE IF x.exp + 53 <= y.exp THEN TRUE
    ELSE IF y.exp + 53 <= x.exp THEN FALSE
    ELSE LLess(MagAt(x, MinExp(x, y)), MagAt(y, MinExp(x, y)))

FloatLess(x, y) ==
    /\ ~IsNaN(x)
    /\ ~IsNaN(y)
    /\ IF x.neg # y.neg THEN x.neg
       ELSE MagLess(IF x.neg THEN y ELSE x, IF x.neg THEN x ELSE y)

ToDecimal(x) ==
    IF x.exp >= 0
    THEN [neg |-> x.neg, dig |-> DigitsOf(MagAt(x, 0)), scale |-> 0]
    ELSE [neg |-> x.neg, dig |-> DigitsOf(LMulPow5(LimbsOf(x.man), 0 - x.exp)),
          scale |-> 0 - x.exp]

\* float(n), for an int n below 2^1024
Float(n) == RoundToDouble(n.neg, LimbsOf(n.dig), 0, 0)

IsInt(x) == "dig" \in DOMAIN x

\* x as a float, for an int or a float x
AsFloat(x) == IF IsInt(x) THEN Float(x) ELSE x

\* x + y, for ints and floats
NumAdd(x, y) == IF IsInt(x) /\ IsInt(y) THEN IntAdd(x, y) ELSE FloatAdd(AsFloat(x), AsFloat(y))

\* x - y, for ints and floats
NumSub(x, y) == IF IsInt(x) /\ IsInt(y) THEN IntSub(x, y) ELSE FloatSub(AsFloat(x), AsFloat(y))

\* x > 0, for an int or a float
NumPositive(x) == IF IsInt(x) THEN IsPositive(x) ELSE FloatLess(ZeroFloat, x)

(***************************************************************************)
(* Registries (module constants of the source)                             *)
(***************************************************************************)
TRANSFER_SIGNATURE == <<"0","x","d","d","f","2","5","2","a","d","1","b","e","2","c","8","9","b","6","9","c","2","b","0","6","8","f","c","3","7","8","d","a","a","9","5","2","b","a","7","f","1","6","3","c","4","a","1","1","6","2","8","f","5","5","a","4","d","f","5","2","3","b","3","e","f">>

UNISWAP_V3_SWAP_SIGNATURE == <<"0","x","c","4","2","0","7","9","f","9","4","a","6","3","5","0","d","7","e","6","2","3","5","f","2","9","1","7","4","9","2","4","f","9","2","8","c","c","2","a","c","8","1","8","e","b","6","4","f","e","d","8","0","0","4","e","1","1","5","f","b","c","c","a","6","7">>

POOL_SWAP_SIGNATURE == <<"0","x","1","9","b","4","7","2","7","9","2","5","6","b","2","a","2","3","a","1","6","6","5","c","8","1","0","c","8","d","5","5","a","1","7","5","8","9","4","0","e","e","0","9","3","7","7","d","4","f","8","d","2","6","4","9","7","a","3","5","7","7","d","c","8","3">>

BALANCER_SWAP_SIGNATURE == <<"0","x","2","1","7","0","c","7","4","1","c","4","1","5","3","1","a","e","c","2","0","e","7","c","1","0","7","c","2","4","e","e","c","f","d","d","1","5","e","6","9","c","9","b","b","0","a","8","d","d","3","7","b","1","8","4","0","b","9","e","0","b","2","0","7","b">>

USDC == <<"U","S","D","C">>

WETH == <<"W","E","T","H">>

cbBTC == <<"c","b","B","T","C">>

USDT == <<"U","S","D","T">>

UNISWAP_V3_NFT == <<"U","n","i","s","w","a","p"," ","V","3"," ","N","F","T">>

USDC_ADDRESS == <<"0","x","8","3","3","5","8","9","f","c","d","6","e","d","b","6","e","0","8","f","4","c","7","c","3","2","d","4","f","7","1","b","5","4","b","d","a","0","2","9","1","3">>

WETH_ADDRESS == <<"0","x","4","2","0","0","0","0","0","0","0","0","0","0","0","0","0","0","0","0","0","0","0","0","0","0","0","0","0","0","0","0","0","0","0","0","0","0","0","0","0","6">>

cbBTC_ADDRESS == <<"0","x","c","b","b","7","c","0","0","0","0","a","b","8","8","b","4","7","3","b","1","f","5","a","f","d","9","e","f","8","0","8","4","4","0","e","e","d","3","3","b","f">>

USDT_ADDRESS == <<"0","x","f","d","e","4","c","9","6","c","8","5","9","3","5","3","6","e","3","1","f","2","2","9","e","a","8","f","3","7","b","2","a","d","a","2","6","9","9","b","b","2">>

NFT_ADDRESS == <<"0","x","0","3","a","5","2","0","b","3","2","c","0","4","b","f","3","b","e","e","f","7","b","e","b","7","2","e","9","1","9","c","f","8","2","2","e","d","3","4","f","1">>

KNOWN_TOKENS ==
    USDC_ADDRESS :> USDC @@ WETH_ADDRESS :> WETH @@ cbBTC_ADDRESS :> cbBTC
    @@ USDT_ADDRESS :> USDT @@ NFT_ADDRESS :> UNISWAP_V3_NFT

TOKEN_DECIMALS ==
    USDC :> 6 @@ USDT :> 6 @@ WETH :> 18 @@ cbBTC :> 8 @@ UNISWAP_V3_NFT :> 0

(***************************************************************************)
(* format_amount                                                           *)
(***************************************************************************)
\* A mutant of Decimals: an unknown symbol resolves to 0 decimals.
Decimals_default_zero(symbol) == Get(TOKEN_DECIMALS, symbol, 0)

\* TOKEN_DECIMALS.get(token_symbol, 18)
Decimals(symbol) == Get(TOKEN_DECIMALS, symbol, 18)

\* amount / (10 ** decimals): the double nearest to the quotient, or
\* OverflowError when that is 2^1024 or more
Scaled(n, decimals) ==
    LET Checked(x) == IF IsInf(x) THEN Raise("OverflowError") ELSE Return(x)
    IN  Checked(RoundToDouble(n.neg, LimbsOf(n.dig), decimals, 0))

\* x / 1000 (e = 3), x / 1000000 (e = 6)
DivPow10(x, e) ==
    IF IsInf(x) \/ IsNaN(x) THEN x ELSE RoundToDouble(x.neg, LimbsOf(x.man), e, x.exp)

\* the doubles of the literals 0.000001, 0.01, 1, 1000 and 1000000, by their
\* exponents of ten
THRESHOLDS ==
    [e \in {0 - 6, 0 - 2, 0, 3, 6} |->
        RoundToDouble(FALSE, IF e > 0 THEN LMulPow10(<<1>>, e) ELSE <<1>>,
                      IF e < 0 THEN 0 - e ELSE 0, 0)]

\* the literal 10^e, for e in {-6, -2, 0, 3, 6}
Threshold(e) == THRESHOLDS[e]

\* A mutant of Below: the comparison is <= instead of <.
Below_inclusive(x, e) == FloatLess(x, Threshold(e)) \/ x = Threshold(e)

\* x < 10^e, the comparisons of format_amount with its literals
Below(x, e) == FloatLess(x, Threshold(e))

\* f"{x:.{places}f}": the exact decimal expansion of the double, rounded
\* half to even at the last place kept
FormatFixed(x, places) ==
    LET sign == IF x.neg THEN <<"-">> ELSE <<>>
        Point(padded) ==
            sign
            \o DigitsToStr(SubSeq(padded, 1, Len(padded) - places))
            \o <<".">>
            \o DigitsToStr(SubSeq(padded, Len(padded) - places + 1, Len(padded)))
        Padded(units) ==
            Point(IF Len(units) < places + 1
                  THEN Repeat(0, places + 1 - Len(units)) \o units
                  ELSE units)
        Units(d) ==
            Padded(IF d.scale <= places
                   THEN StripZeros(d.dig \o Repeat(0, places - d.scale))
                   ELSE RoundHalfEven(d.dig, d.scale - places))
    IN  IF IsNaN(x) THEN <<"n","a","n">>
        ELSE IF IsInf(x) THEN sign \o <<"i","n","f">>
        ELSE Units(ToDecimal(x))

\* the branches on actual_amount
FormatScaled(actual_amount) ==
    IF Below(actual_amount, 0 - 6) THEN FormatFixed(actual_amount, 8)
    ELSE IF Below(actual_amount, 0 - 2) THEN FormatFixed(actual_amount, 6)
    ELSE IF Below(actual_amount, 0) THEN FormatFixed(actual_amount, 4)
    ELSE IF Below(actual_amount, 3) THEN FormatFixed(actual_amount, 2)
    ELSE IF Below(actual_amount, 6)
         THEN FormatFixed(DivPow10(actual_amount, 3), 2) \o <<"K">>
         ELSE FormatFixed(DivPow10(actual_amount, 6), 2) \o <<"M">>

format_amount(n, symbol) ==
    LET decimals == Decimals(symbol)
        Formatted(actual_amount) ==
            IF IsRaised(actual_amount) THEN actual_amount
            ELSE Return(FormatScaled(actual_amount.value))
    IN  IF IsZero(n) THEN Return(<<"0">>)
        ELSE IF decimals = 0 THEN IntToStr(n)
        ELSE Formatted(Scaled(n, decimals))

(***************************************************************************)
(* calculate_token_flows                                                   *)
(*                                                                         *)
(* total_in and total_out start as the int 0 and become floats with the    *)
(* first amount added; net_flow is their difference.                       *)
(***************************************************************************)
EXCLUDE_ADDRESSES ==
    { <<"0","x">> \o Repeat("0", 64),
      <<"0","x">> \o Repeat("0", 60) \o <<"d","e","a","d">> }

\* the value the defaultdict creates for a missing key
NewTokenEntry ==
    [total_in |-> ZeroInt, total_out |-> ZeroInt, net_flow |-> ZeroInt,
     transfer_count |-> 0, decimals |-> 18]

\* token_summary[token], creating the entry when it is missing
EntryOf(token_summary, token) == Get(token_summary, token, NewTokenEntry)

\* A mutant of IsExcluded: the non-fungible symbol is not skipped.
IsExcluded_addresses_only(transfer) ==
    \/ transfer.from \in EXCLUDE_ADDRESSES
    \/ transfer.to \in EXCLUDE_ADDRESSES

\* the condition of the continue statement
IsExcluded(transfer) ==
    \/ transfer.token = UNISWAP_V3_NFT
    \/ transfer.from \in EXCLUDE_ADDRESSES
    \/ transfer.to \in EXCLUDE_ADDRESSES

\* total_out += actual_amount; total_in += actual_amount
AddVolume(entry, actual_amount) ==
    [entry EXCEPT !.total_out = NumAdd(@, actual_amount),
                  !.total_in = NumAdd(@, actual_amount)]

\* amount / (10 ** decimals) if amount > 0 else 0
ActualAmount(n, decimals) ==
    IF IsPositive(n) THEN Scaled(n, decimals) ELSE Return(ZeroInt)

\* One iteration of the loop over transfers.  acc.raised records the
\* OverflowError of the division, which ends the call.
FlowStep(acc, transfer) ==
    LET token    == transfer.token
        decimals == Decimals(token)
        Stored(entry) ==
            [acc EXCEPT !.token_summary =
                [t \in DOMAIN acc.token_summary \cup {token} |->
                    IF t = token THEN entry ELSE acc.token_summary[t]]]
        Added(counted, actual_amount) ==
            IF IsRaised(actual_amount) THEN [acc EXCEPT !.raised = actual_amount.raised]
            ELSE Stored(IF NumPositive(actual_amount.value)
                        THEN AddVolume(counted, actual_amount.value)
                        ELSE counted)
    IN  IF IsExcluded(transfer) THEN acc
        ELSE Added([EntryOf(acc.token_summary, token) EXCEPT
                       !.decimals = decimals,
                       !.transfer_count = @ + 1],
                   ActualAmount(transfer.amount, decimals))

RECURSIVE FlowLoop(_, _)
FlowLoop(acc, rest) ==
    IF rest = <<>> \/ acc.raised # "" THEN acc
    ELSE FlowLoop(FlowStep(acc, Head(rest)), Tail(rest))

\* net_flow = total_in - total_out
Finalize(entry) == [entry EXCEPT !.net_flow = NumSub(entry.total_in, entry.total_out)]

calculate_token_flows(transfer_list) ==
    LET Finalized(acc) ==
            IF acc.raised # "" THEN Raise(acc.raised)
            ELSE Return([t \in DOMAIN acc.token_summary |-> Finalize(acc.token_summary[t])])
    IN  Finalized(FlowLoop([token_summary |-> <<>>, raised |-> ""], transfer_list))

(***************************************************************************)
(* generate_summary                                                        *)
(***************************************************************************)
SwapPath(curr, next_transfer) ==
    [from_token |-> curr.token, to_token |-> next_transfer.token,
     from_amount |-> curr.amount_formatted,
     to_amount |-> next_transfer.amount_formatted]

\* the loop for i in range(len(transfers) - 1), from index i (1-based)
RECURSIVE SwapPathLoop(_, _, _)
SwapPathLoop(swap_paths, i, transfer_list) ==
    IF i > Len(transfer_list) - 1 THEN swap_paths
    ELSE SwapPathLoop(
            IF transfer_list[i].token # transfer_list[i + 1].token
            THEN Append(swap_paths, SwapPath(transfer_list[i], transfer_list[i + 1]))
            ELSE swap_paths,
            i + 1, transfer_list)

\* A mutant of FirstFive: the last five candidates are kept.
FirstFive_last(swap_paths) == Suffix(swap_paths, 5)

\* swap_paths[:5]
FirstFive(swap_paths) == Prefix(swap_paths, 5)

\* tokens_involved is list(set(...)), a list in no particular order: a set.
generate_summary(swap_list, transfer_list) ==
    LET Summary(token_flows) ==
            IF IsRaised(token_flows) THEN token_flows
            ELSE Return([total_swaps |-> Len(swap_list),
                         total_transfers |-> Len(transfer_list),
                         tokens_involved |-> {transfer_list[i].token : i \in 1..Len(transfer_list)},
                         token_flows |-> token_flows.value,
                         potential_swap_paths |-> FirstFive(SwapPathLoop(<<>>, 1, transfer_list))])
    IN  Summary(calculate_token_flows(transfer_list))

(***************************************************************************)
(* analyze_transaction_logs                                                *)
(***************************************************************************)
\* "0x" + topic[-40:]
AddressOf(topic) == <<"0","x">> \o Suffix(topic, 40)

\* A mutant of NormalizeAddress: the address is looked up as it was given.
NormalizeAddress_verbatim(address) == address

\* log.get("address", "").lower()
NormalizeAddress(address) == Lower(address)

\* KNOWN_TOKENS.get(address, f"Token({address[:8]}...)")
TokenSymbol(address) ==
    Get(KNOWN_TOKENS, address,
        <<"T","o","k","e","n","(">> \o Prefix(address, 8) \o <<".",".",".",")">>)

\* data and data != "0x"
HasAmountData(data) == data # <<>> /\ data # <<"0","x">>

\* A mutant of HasTransferTopics: a fourth topic is required.
HasTransferTopics_four(topics) == Len(topics) > 3

\* len(topics) >= 3
HasTransferTopics(topics) == Len(topics) >= 3

\* int(data, 16) if data and data != "0x" else 0
AmountOf(data) ==
    IF ~HasAmountData(data) THEN Return(ZeroInt)
    ELSE IF IsHexLiteral(data) THEN Return(ParseHex(data))
    ELSE Raise("ValueError")

\* The transfer of a Transfer record, or the exception of int(data, 16) or
\* of format_amount.
TransferEvent(log_index, address, topics, data) ==
    LET Made(amt, symbol, formatted) ==
            IF IsRaised(formatted) THEN formatted
            ELSE Return([index |-> log_index, token |-> symbol,
                         token_address |-> address,
                         from |-> AddressOf(topics[2]), to |-> AddressOf(topics[3]),
                         amount |-> amt, amount_formatted |-> formatted.value])
        Formatted(amt, symbol) == Made(amt, symbol, format_amount(amt, symbol))
        Parsed(amt) ==
            IF IsRaised(amt) THEN amt ELSE Formatted(amt.value, TokenSymbol(address))
    IN  Parsed(AmountOf(data))

PoolSwapEvent(log_index, address, topics, data) ==
    [index |-> log_index, pool_address |-> address,
     event_type |-> IF StartsWith(topics[1], <<"0","x","c","4","2","0","7","9">>)
                    THEN <<"U","n","i","s","w","a","p"," ","V","3"," ","S","w","a","p">>
                    ELSE <<"P","o","o","l"," ","S","w","a","p">>,
     sender |-> IF Len(topics) > 1 THEN AddressOf(topics[2]) ELSE <<>>,
     recipient |-> IF Len(topics) > 2 THEN AddressOf(topics[3]) ELSE <<>>,
     data |-> data]

BalancerSwapEvent(log_index, address, topics, data) ==
    [index |-> log_index, pool_address |-> address,
     event_type |-> <<"B","a","l","a","n","c","e","r"," ","S","w","a","p">>,
     pool_id |-> IF Len(topics) > 1 THEN topics[2] ELSE <<>>,
     token_in |-> IF Len(topics) > 2 THEN AddressOf(topics[3]) ELSE <<>>,
     token_out |-> IF Len(topics) > 3 THEN AddressOf(topics[4]) ELSE <<>>,
     data |-> data]

\* A mutant of AppendEvent: the event is put at the front of the list.
AppendEvent_front(events, e) == <<e>> \o events

\* events.append(e)
AppendEvent(events, e) == Append(events, e)

\* One iteration of the loop over logs.  acc.raised records the exception
\* that ends the call.
LogStep(acc, log) ==
    LET log_index == Get(log, "index", 0)
        topics    == Get(log, "topics", <<>>)
        data      == Get(log, "data", <<>>)
        Recorded(e) ==
            IF IsRaised(e) THEN [acc EXCEPT !.raised = e.raised]
            ELSE [acc EXCEPT !.transfers = AppendEvent(@, e.value)]
        Classified(address) ==
            IF topics = <<>> THEN acc
            ELSE IF topics[1] = TRANSFER_SIGNATURE
            THEN IF HasTransferTopics(topics)
                 THEN Recorded(TransferEvent(log_index, address, topics, data))
                 ELSE acc
            ELSE IF topics[1] \in {UNISWAP_V3_SWAP_SIGNATURE, POOL_SWAP_SIGNATURE}
            THEN [acc EXCEPT !.swaps =
                     AppendEvent(@, PoolSwapEvent(log_index, address, topics, data))]
            ELSE IF topics[1] = BALANCER_SWAP_SIGNATURE
            THEN [acc EXCEPT !.swaps =
                     AppendEvent(@, BalancerSwapEvent(log_index, address, topics, data))]
            ELSE acc
    IN  Classified(NormalizeAddress(Get(log, "address", <<>>)))

RECURSIVE LogLoop(_, _)
LogLoop(acc, rest) ==
    IF rest = <<>> \/ acc.raised # "" THEN acc
    ELSE LogLoop(LogStep(acc, Head(rest)), Tail(rest))

\* The outcome of analyze_transaction_logs(log_list): the exception raised,
\* or the dict returned.
analyze_transaction_logs(log_list) ==
    LET Result(acc, summary) ==
            IF IsRaised(summary) THEN summary
            ELSE Return([swaps |-> acc.swaps,
                         transfers |-> acc.transfers,
                         summary |-> summary.value])
        Summarized(acc) ==
            IF acc.raised # "" THEN Raise(acc.raised)
            ELSE Result(acc, generate_summary(acc.swaps, acc.transfers))
    IN  Summarized(LogLoop([swaps |-> <<>>, transfers |-> <<>>, raised |-> ""], log_list))

(***************************************************************************)
(* The end of a call: the exception raised, or the value returned.         *)
(***************************************************************************)
Finish(outcome) ==
    IF IsRaised(outcome)
    THEN pc' = "raised" /\ result' = outcome.raised
    ELSE pc' = "returned" /\ result' = outcome.value

(***************************************************************************)
(* Calls of format_amount                                                  *)
(***************************************************************************)
\* the largest power of ten an input amount is multiplied by
MaxExp == 22

\* significant digits of the input amounts; 1015, 2675 and 5 give quotients
\* that lie half way between two printed values in decimal and are not
\* doubles
Mantissas == {<<1>>, <<2>>, <<5>>, <<9,9,9>>, <<1,0,0,1>>, <<1,0,1,5>>, <<1,1,2,5>>,
              <<1,3,7,5>>, <<2,6,7,5>>, <<1,2,3,4>>, <<9,9,9,9,9,9>>}

NegativeMantissas == {<<1>>, <<1,2,3,4>>}

\* the largest amount a Transfer event carries: 2^256 - 1
UINT256_MAX == ParseHex(<<"0","x">> \o Repeat("f", 64))

\* amounts one unit below a threshold, which the division rounds up to it
JustBelowThreshold == {IntOf(FALSE, Repeat(9, 18)), IntOf(FALSE, Repeat(9, 21)),
                       IntOf(FALSE, Repeat(9, 24))}

\* the least magnitude amount / (10 ** decimals) cannot hold: half a unit in
\* the last place above the largest double, 2^1024 - 2^970
OVERFLOW_LIMIT == LSub(LShl(<<1>>, 1024), LShl(<<1>>, 970))

\* the least amount whose division by 10^d raises OverflowError
LeastOverflowing(d) == IntOf(FALSE, DigitsOf(LMulPow10(OVERFLOW_LIMIT, d)))

\* the least overflowing amount of each number of decimals, the amount one
\* unit below it, and the negative of one of them
AroundOverflow ==
    UNION {{LeastOverflowing(d), IntSub(LeastOverflowing(d), IntOf(FALSE, <<1>>))} :
              d \in {6, 8, 18}}
    \cup {IntOf(TRUE, LeastOverflowing(18).dig)}

\* the largest power of ten str() converts, of 4300 digits, and the least
\* amount it refuses
AroundDigitLimit ==
    {IntOf(FALSE, <<1>> \o Repeat(0, 4299)), IntOf(FALSE, <<1>> \o Repeat(0, 4300))}

\* a symbol no registry knows, as analyze_transaction_logs synthesizes it
UNKNOWN_SYMBOL == <<"T","o","k","e","n","(","0","x","a","b","c","d","e","f",".",".",".",")">>

FormatAmounts ==
    {ZeroInt, UINT256_MAX}
    \cup JustBelowThreshold
    \cup AroundOverflow
    \cup AroundDigitLimit
    \cup {IntOf(FALSE, m \o Repeat(0, j)) : m \in Mantissas, j \in 0..MaxExp}
    \cup {IntOf(TRUE, m \o Repeat(0, j)) : m \in NegativeMantissas, j \in 0..MaxExp}

FormatSymbols == {USDC, USDT, WETH, cbBTC, UNISWAP_V3_NFT, UNKNOWN_SYMBOL, <<>>}

InitFormat ==
    /\ pc = "format_amount"
    /\ amount \in FormatAmounts
    /\ token_symbol \in FormatSymbols
    /\ logs = <<>>
    /\ swaps = <<>>
    /\ transfers = <<>>
    /\ result = <<>>

FormatAmount ==
    /\ pc = "format_amount"
    /\ Finish(format_amount(amount, token_symbol))
    /\ UNCHANGED <<logs, swaps, transfers, amount, token_symbol>>

NextFormat == FormatAmount

SpecFormat == InitFormat /\ [][NextFormat]_vars

(***************************************************************************)
(* Calls of analyze_transaction_logs                                       *)
(***************************************************************************)
\* the longest log list analysed
MaxLogs == 3

ZERO_TOPIC == <<"0","x">> \o Repeat("0", 64)

DEAD_TOPIC == <<"0","x">> \o Repeat("0", 60) \o <<"d","e","a","d">>

ALICE_TOPIC == <<"0","x">> \o Repeat("0", 24) \o Repeat("a", 40)

BOB_TOPIC == <<"0","x">> \o Repeat("0", 24) \o Repeat("b", 40)

TOKEN_ID_TOPIC == <<"0","x">> \o Repeat("0", 62) \o <<"2","a">>

\* Approval(address,address,uint256), which the classifier does not know
APPROVAL_SIGNATURE == <<"0","x","8","c","5","b","e","1","e","5","e","b","e","c","7","d","5","b","d","1","4","f","7","1","4","2","7","d","1","e","8","4","f","3","d","d","0","3","1","4","c","0","f","7","b","2","2","9","1","e","5","b","2","0","0","a","c","8","c","7","c","3","b","9","2","5">>

\* the USDC address in mixed (checksum) case
USDC_CHECKSUM_ADDRESS == <<"0","x","8","3","3","5","8","9","f","C","D","6","e","D","b","6","E","0","8","f","4","c","7","C","3","2","D","4","f","7","1","b","5","4","b","d","A","0","2","9","1","3">>

\* an address no registry knows; its third digit is a cased letter that is
\* no hexadecimal digit
UNKNOWN_ADDRESS == <<"0","x","A","B","É","D","E","F","0","1","2","3","4","5","6","7","8","9","a","b","c","d","e","f","0","1","2","3","4","5","6","7","8","9","A","B","C","D","E","F","0","1">>

POOL_ADDRESS == <<"0","x","d","0","b","5","3","d","9","2","7","7","6","4","2","d","8","9","9","d","f","5","c","8","7","a","3","9","6","6","a","3","4","9","a","7","9","8","f","2","2","4">>

\* Transfer records: the tokens, the endpoints and the data fields met
TransferRecords ==
    { \* 1 USDC, Alice to Bob; the data has white space around it and
      \* underscores between digits
      [index |-> 0, address |-> USDC_ADDRESS,
       topics |-> <<TRANSFER_SIGNATURE, ALICE_TOPIC, BOB_TOPIC>>,
       data |-> <<" ","0","x","_","0","0","0","0","_","0","f","4","2","4","0","\n">>],
      \* 0 USDC from the checksum-case address, data "0x"
      [index |-> 1, address |-> USDC_CHECKSUM_ADDRESS,
       topics |-> <<TRANSFER_SIGNATURE, BOB_TOPIC, ALICE_TOPIC>>,
       data |-> <<"0","x">>],
      \* 1 WETH minted: from the zero address
      [index |-> 2, address |-> WETH_ADDRESS,
       topics |-> <<TRANSFER_SIGNATURE, ZERO_TOPIC, ALICE_TOPIC>>,
       data |-> <<"0","x","d","e","0","b","6","b","3","a","7","6","4","0","0","0","0">>],
      \* 2500 USDT burnt: to the dead address
      [index |-> 3, address |-> USDT_ADDRESS,
       topics |-> <<TRANSFER_SIGNATURE, ALICE_TOPIC, DEAD_TOPIC>>,
       data |-> <<"0","x","9","5","0","2","F","9","0","0">>],
      \* a token no registry knows, no data field
      [index |-> 4, address |-> UNKNOWN_ADDRESS,
       topics |-> <<TRANSFER_SIGNATURE, ALICE_TOPIC, BOB_TOPIC>>],
      \* no index, no address, empty data
      [topics |-> <<TRANSFER_SIGNATURE, BOB_TOPIC, ALICE_TOPIC>>, data |-> <<>>],
      \* data that is no hexadecimal literal
      [index |-> 7, address |-> WETH_ADDRESS,
       topics |-> <<TRANSFER_SIGNATURE, ALICE_TOPIC, BOB_TOPIC>>,
       data |-> <<"0","x","z","z">>],
      \* the position NFT, token id as fourth topic
      [index |-> 9, address |-> NFT_ADDRESS,
       topics |-> <<TRANSFER_SIGNATURE, ZERO_TOPIC, ALICE_TOPIC, TOKEN_ID_TOPIC>>,
       data |-> <<"0","x">>] }

\* Records of every kind the classifier tells apart
LogRecords ==
    { [index |-> 0, address |-> USDC_ADDRESS,
       topics |-> <<TRANSFER_SIGNATURE, ALICE_TOPIC, BOB_TOPIC>>,
       data |-> <<"0","x","0","0","0","0","0","f","4","2","4","0">>],
      [index |-> 2, address |-> WETH_ADDRESS,
       topics |-> <<TRANSFER_SIGNATURE, BOB_TOPIC, ALICE_TOPIC>>,
       data |-> <<"0","x","2","3","8","6","f","2","6","f","c","1","0","0","0","0">>],
      \* no index, no address, empty data
      [topics |-> <<TRANSFER_SIGNATURE, BOB_TOPIC, ALICE_TOPIC>>, data |-> <<>>],
      \* a Transfer with two topics only
      [index |-> 6, address |-> USDC_ADDRESS,
       topics |-> <<TRANSFER_SIGNATURE, ALICE_TOPIC>>,
       data |-> <<"0","x","0","f","4","2","4","0">>],
      \* data that is no hexadecimal literal
      [index |-> 7, address |-> WETH_ADDRESS,
       topics |-> <<TRANSFER_SIGNATURE, ALICE_TOPIC, BOB_TOPIC>>,
       data |-> <<"0","x","z","z">>],
      \* the position NFT, token id as fourth topic
      [index |-> 9, address |-> NFT_ADDRESS,
       topics |-> <<TRANSFER_SIGNATURE, ZERO_TOPIC, ALICE_TOPIC, TOKEN_ID_TOPIC>>,
       data |-> <<"0","x">>],
      [index |-> 10, address |-> POOL_ADDRESS,
       topics |-> <<UNISWAP_V3_SWAP_SIGNATURE, ALICE_TOPIC, BOB_TOPIC>>,
       data |-> <<"0","x","0","1">>],
      [index |-> 11, address |-> POOL_ADDRESS,
       topics |-> <<POOL_SWAP_SIGNATURE>>,
       data |-> <<"0","x">>],
      [index |-> 12, address |-> POOL_ADDRESS,
       topics |-> <<BALANCER_SWAP_SIGNATURE, TOKEN_ID_TOPIC, ALICE_TOPIC, BOB_TOPIC>>,
       data |-> <<"0","x","z","z">>],
      \* no topics field
      [index |-> 13, address |-> USDC_ADDRESS, data |-> <<"0","x","0","1">>],
      \* an event the classifier does not know
      [index |-> 14, address |-> USDC_ADDRESS,
       topics |-> <<APPROVAL_SIGNATURE, ALICE_TOPIC, BOB_TOPIC>>,
       data |-> <<"0","x","z","z">>] }

\* the sequences over S of length at most n
SeqUpTo(S, n) == UNION {[1..k -> S] : k \in 0..n}

Init ==
    /\ pc = "analyze_transaction_logs"
    /\ logs \in SeqUpTo(LogRecords, MaxLogs)
    /\ swaps = <<>>
    /\ transfers = <<>>
    /\ amount = ZeroInt
    /\ token_symbol = <<>>
    /\ result = <<>>

AnalyzeTransactionLogs ==
    /\ pc = "analyze_transaction_logs"
    /\ Finish(analyze_transaction_logs(logs))
    /\ UNCHANGED <<logs, swaps, transfers, amount, token_symbol>>

Next == AnalyzeTransactionLogs

Spec == Init /\ [][Next]_vars

InitTransfers ==
    /\ pc = "analyze_transaction_logs"
    /\ logs \in SeqUpTo(TransferRecords, MaxLogs)
    /\ swaps = <<>>
    /\ transfers = <<>>
    /\ amount = ZeroInt
    /\ token_symbol = <<>>
    /\ result = <<>>

SpecTransfers == InitTransfers /\ [][Next]_vars

(***************************************************************************)
(* Calls of generate_summary                                               *)
(***************************************************************************)
\* the longest transfer list whose flows are aggregated
MaxFlowLen == 3

\* the longest transfer list searched for swap paths
MaxPathLen == 7

ALICE == AddressOf(ALICE_TOPIC)

BOB == AddressOf(BOB_TOPIC)

\* a transfer as analyze_transaction_logs builds it, for the addresses given
MakeTransfer(address, from_addr, to_addr, amt) ==
    [index |-> 0, token |-> TokenSymbol(address), token_address |-> address,
     from |-> from_addr, to |-> to_addr,
     amount |-> amt, amount_formatted |-> format_amount(amt, TokenSymbol(address)).value]

\* 0.1 USDC and 1.1 and 2.2 WETH are no doubles, and neither are their sums
FlowTransfers ==
    { MakeTransfer(k[1], k[2], k[3], k[4]) :
        k \in { <<USDC_ADDRESS, ALICE, BOB, IntOf(FALSE, <<1,0,0,0,0,0>>)>>,
                 <<USDC_ADDRESS, BOB, ALICE, ZeroInt>>,
                 <<USDC_ADDRESS, ALICE, DEAD_TOPIC, IntOf(FALSE, <<2,5,0,0,0,0>>)>>,
                 <<WETH_ADDRESS, ALICE, BOB, IntOf(FALSE, <<1,1>> \o Repeat(0, 17))>>,
                 <<WETH_ADDRESS, ZERO_TOPIC, ALICE, IntOf(FALSE, <<2>> \o Repeat(0, 18))>>,
                 <<WETH_ADDRESS, AddressOf(ZERO_TOPIC), ALICE, IntOf(FALSE, <<2,2>> \o Repeat(0, 17))>>,
                 <<cbBTC_ADDRESS, ALICE, BOB, IntOf(TRUE, <<1>>)>>,
                 <<NFT_ADDRESS, ALICE, BOB, IntOf(FALSE, <<4,2>>)>>,
                 <<Lower(UNKNOWN_ADDRESS), BOB, ALICE, IntOf(FALSE, <<7,5>> \o Repeat(0, 16))>> } }

\* 10^326 wei of WETH is 1e308 WETH: one such transfer is a finite volume,
\* and two of them exceed the largest double
OverflowFlows ==
    LET Lists(T, t) == {<<T>>, <<T, T>>, <<t, T, T>>}
    IN  Lists(MakeTransfer(WETH_ADDRESS, ALICE, BOB, IntOf(FALSE, <<1>> \o Repeat(0, 326))),
              MakeTransfer(WETH_ADDRESS, BOB, ALICE, IntOf(FALSE, <<1,1>> \o Repeat(0, 17))))

PathTransfers ==
    { MakeTransfer(k[1], k[2], k[3], k[4]) :
        k \in { <<USDC_ADDRESS, ALICE, BOB, IntOf(FALSE, <<1,5,0,0,0,0,0>>)>>,
                 <<USDC_ADDRESS, BOB, ALICE, IntOf(FALSE, <<2,5,0,0,0,0>>)>>,
                 <<WETH_ADDRESS, ALICE, BOB, IntOf(FALSE, <<1>> \o Repeat(0, 18))>> } }

SwapLists ==
    { <<>>,
      <<BalancerSwapEvent(0, POOL_ADDRESS,
                          <<BALANCER_SWAP_SIGNATURE, TOKEN_ID_TOPIC, ALICE_TOPIC, BOB_TOPIC>>,
                          <<"0","x">>)>> }

InitFlows ==
    /\ pc = "generate_summary"
    /\ transfers \in SeqUpTo(FlowTransfers, MaxFlowLen) \cup OverflowFlows
    /\ swaps \in SwapLists
    /\ logs = <<>>
    /\ amount = ZeroInt
    /\ token_symbol = <<>>
    /\ result = <<>>

InitPaths ==
    /\ pc = "generate_summary"
    /\ transfers \in SeqUpTo(PathTransfers, MaxPathLen)
    /\ swaps = <<>>
    /\ logs = <<>>
    /\ amount = ZeroInt
    /\ token_symbol = <<>>
    /\ result = <<>>

GenerateSummary ==
    /\ pc = "generate_summary"
    /\ Finish(generate_summary(swaps, transfers))
    /\ UNCHANGED <<logs, swaps, transfers, amount, token_symbol>>

NextSummary == GenerateSummary

SpecFlows == InitFlows /\ [][NextSummary]_vars

SpecPaths == InitPaths /\ [][NextSummary]_vars

(***************************************************************************)
(* Properties                                                              *)
(***************************************************************************)
Returned == pc = "returned"

Min(a, b) == IF a <= b THEN a ELSE b

\* the number of positions of S up to p
CountUpTo(S, p) == Cardinality({q \in S : q <= p})

\* the j-th smallest element of a set of positions
Nth(S, j) == CHOOSE i \in S : Cardinality({p \in S : p <= i}) = j

Chars(str) == {str[i] : i \in 1..Len(str)}

TopicsOf(log) == Get(log, "topics", <<>>)

\* the record is a Transfer with its two address topics
YieldsTransfer(log) ==
    /\ TopicsOf(log) # <<>>
    /\ TopicsOf(log)[1] = TRANSFER_SIGNATURE
    /\ Len(TopicsOf(log)) >= 3

\* the record carries one of the three swap signatures
YieldsSwap(log) ==
    /\ TopicsOf(log) # <<>>
    /\ TopicsOf(log)[1] \in {UNISWAP_V3_SWAP_SIGNATURE, POOL_SWAP_SIGNATURE,
                             BALANCER_SWAP_SIGNATURE}

TransferPositions == {p \in 1..Len(logs) : YieldsTransfer(logs[p])}

SwapPositions == {p \in 1..Len(logs) : YieldsSwap(logs[p])}

\* what the classifier makes of the record at position p taken alone
Alone(p) == LogStep([swaps |-> <<>>, transfers |-> <<>>, raised |-> ""], logs[p])

\* the addresses "0x" + topic[-40:] recovers from the zero and the burn topic
BurnEndpoints == {AddressOf(ZERO_TOPIC), AddressOf(DEAD_TOPIC)}

TouchesBurn(t) == t.from \in BurnEndpoints \/ t.to \in BurnEndpoints

NotTouchingBurn(t) == ~TouchesBurn(t)

\* C1: a Transfer whose recovered from or to address is the zero or the burn
\* address is left out of token_flows: the flows are those of the other
\* transfers alone.
C1_BurnTransfersExcluded ==
    Returned =>
        LET flows == result.summary.token_flows
            kept  == calculate_token_flows(SelectSeq(result.transfers, NotTouchingBurn)).value
        IN  /\ DOMAIN flows = DOMAIN kept
            /\ \A t \in DOMAIN flows :
                  /\ flows[t].transfer_count = kept[t].transfer_count
                  /\ flows[t].total_in = kept[t].total_in
                  /\ flows[t].total_out = kept[t].total_out

\* C2: no data value makes analyze_transaction_logs fail; the amount of a
\* transfer is 0 when its data is absent, empty, "0x" or no hexadecimal
\* string, and is never negative.
C2_DataNeverFails ==
    /\ pc # "raised"
    /\ Returned =>
          \A j \in 1..Len(result.transfers) :
              LET data == Get(logs[Nth(TransferPositions, j)], "data", <<>>)
              IN  /\ ~result.transfers[j].amount.neg
                  /\ (data \in {<<>>, <<"0","x">>} \/ ~IsHexLiteral(data))
                        => IsZero(result.transfers[j].amount)

\* x == y, for ints and floats
NumEq(x, y) ==
    IF IsInt(x) /\ IsInt(y) THEN x = y
    ELSE ~IsNaN(AsFloat(x)) /\ AsFloat(x) = AsFloat(y)

\* x == 0, for an int or a float
NumIsZero(x) == NumEq(x, ZeroInt)

\* C3: every token entry of calculate_token_flows has total_in == total_out
\* and net_flow == total_in - total_out == 0.  Two transfers of 10^326 wei of
\* WETH refute it: both totals are inf and net_flow is inf - inf, a nan.
C3_InEqualsOut ==
    Returned =>
        \A t \in DOMAIN result.token_flows :
            /\ NumEq(result.token_flows[t].total_in, result.token_flows[t].total_out)
            /\ NumEq(result.token_flows[t].net_flow,
                     NumSub(result.token_flows[t].total_in, result.token_flows[t].total_out))
            /\ NumIsZero(result.token_flows[t].net_flow)

DifferingPositions ==
    {i \in 1..(Len(transfers) - 1) : transfers[i].token # transfers[i + 1].token}

\* C4: potential_swap_paths is the first min(5, k) of the k adjacent pairs
\* of transfers with differing symbols, in order of position, each with the
\* tokens and formatted amounts of its two transfers.
C4_FirstFiveAdjacentPairs ==
    Returned =>
        LET paths == result.potential_swap_paths
        IN  /\ Len(paths) = Min(5, Cardinality(DifferingPositions))
            /\ Len(paths) <= 5
            /\ \A j \in 1..Len(paths) :
                  LET i == Nth(DifferingPositions, j)
                  IN  paths[j] = [from_token |-> transfers[i].token,
                                  to_token |-> transfers[i + 1].token,
                                  from_amount |-> transfers[i].amount_formatted,
                                  to_amount |-> transfers[i + 1].amount_formatted]

C4_Witness ==
    /\ Returned
    /\ Cardinality(DifferingPositions) >= 6
    /\ Len(result.potential_swap_paths) = 5

\* C5: the transfers and the swaps are the events of the input records that
\* yield one, in the order of the records; a record yields at most one
\* event, in at most one of the two sequences.
C5_OrderPreserved ==
    Returned =>
        /\ Len(result.transfers) = Cardinality(TransferPositions)
        /\ Len(result.swaps) = Cardinality(SwapPositions)
        /\ TransferPositions \cap SwapPositions = {}
        /\ \A p \in 1..Len(logs) :
              LET alone == Alone(p)
              IN  /\ Len(alone.transfers) + Len(alone.swaps) <= 1
                  /\ p \in TransferPositions =>
                        <<result.transfers[CountUpTo(TransferPositions, p)]>> = alone.transfers
                  /\ p \in SwapPositions =>
                        <<result.swaps[CountUpTo(SwapPositions, p)]>> = alone.swaps

C5_Witness ==
    /\ Returned
    /\ TransferPositions = {1, 3}
    /\ SwapPositions = {2}
    /\ logs[1] # logs[3]
    /\ Len(result.transfers) = 2
    /\ Len(result.swaps) = 1

\* C6: a record yields a transfer iff it is a Transfer with at least three
\* topics and a swap iff its first topic is a swap signature; every other
\* record is dropped, so total_transfers and total_swaps count such records.
C6_EventsCounted ==
    Returned =>
        /\ \A p \in 1..Len(logs) :
              LET alone == Alone(p)
              IN  /\ alone.transfers # <<>> <=> YieldsTransfer(logs[p])
                  /\ alone.swaps # <<>> <=> YieldsSwap(logs[p])
        /\ result.summary.total_transfers = Cardinality(TransferPositions)
        /\ result.summary.total_swaps = Cardinality(SwapPositions)
        /\ Len(result.transfers) = Cardinality(TransferPositions)
        /\ Len(result.swaps) = Cardinality(SwapPositions)

C6_Witness ==
    /\ Returned
    /\ \E p \in 1..Len(logs) :
          /\ TopicsOf(logs[p]) # <<>>
          /\ TopicsOf(logs[p])[1] = TRANSFER_SIGNATURE
          /\ Len(TopicsOf(logs[p])) = 2
    /\ \E p \in 1..Len(logs) : TopicsOf(logs[p]) = <<>>
    /\ \E p \in 1..Len(logs) : Len(TopicsOf(logs[p])) = 3 /\ YieldsTransfer(logs[p])
    /\ result.summary.total_transfers = 1
    /\ result.summary.total_swaps = 0

\* the symbol the claim gives a transfer of the record
ExpectedSymbol(log) ==
    LET address == Lower(Get(log, "address", <<>>))
    IN  IF address \in DOMAIN KNOWN_TOKENS
        THEN KNOWN_TOKENS[address]
        ELSE <<"T","o","k","e","n","(">> \o Prefix(address, 8) \o <<".",".",".",")">>

\* C7: every transfer has a non-empty symbol: the registry symbol of the
\* lower-cased emitting address when it is known, else the placeholder made
\* of the first characters of the address, also when the address is missing.
C7_SymbolResolved ==
    Returned =>
        \A j \in 1..Len(result.transfers) :
            /\ j <= Cardinality(TransferPositions)
            /\ result.transfers[j].token # <<>>
            /\ result.transfers[j].token = ExpectedSymbol(logs[Nth(TransferPositions, j)])

\* the unknown address has a capital E acute, which lower() folds
C7_Witness ==
    /\ Returned
    /\ Len(result.transfers) = 3
    /\ \E j \in 1..3 :
          /\ Get(logs[j], "address", <<>>) = USDC_CHECKSUM_ADDRESS
          /\ result.transfers[j].token = USDC
    /\ \E j \in 1..3 :
          /\ "address" \notin DOMAIN logs[j]
          /\ result.transfers[j].token = <<"T","o","k","e","n","(",".",".",".",")">>
    /\ \E j \in 1..3 :
          /\ Get(logs[j], "address", <<>>) = UNKNOWN_ADDRESS
          /\ result.transfers[j].token = <<"T","o","k","e","n","(","0","x","a","b","é","d","e","f",".",".",".",")">>

\* 10^k
Pow10(k) == IntOf(FALSE, <<1>> \o Repeat(0, k))

\* n >= 10^k, for an int n # 0
AtLeastPow10(n, k) == ~n.neg /\ Len(n.dig) > k

\* the digits after the decimal point and the suffix of a formatted amount
Shape(str) ==
    LET dot  == CHOOSE i \in 1..Len(str) : str[i] = "."
        last == str[Len(str)]
    IN  IF last \in {"K", "M"}
        THEN [places |-> Len(str) - dot - 1, suffix |-> last]
        ELSE [places |-> Len(str) - dot, suffix |-> ""]

\* the bracket of the double x, each threshold belonging to the bracket
\* above it
ExpectedShape(x) ==
    IF ~FloatLess(x, Threshold(6)) THEN [places |-> 2, suffix |-> "M"]
    ELSE IF ~FloatLess(x, Threshold(3)) THEN [places |-> 2, suffix |-> "K"]
    ELSE IF ~FloatLess(x, Threshold(0)) THEN [places |-> 2, suffix |-> ""]
    ELSE IF ~FloatLess(x, Threshold(0 - 2)) THEN [places |-> 4, suffix |-> ""]
    ELSE IF ~FloatLess(x, Threshold(0 - 6)) THEN [places |-> 6, suffix |-> ""]
    ELSE [places |-> 8, suffix |-> ""]

\* the brackets in increasing order
Rank(shape) ==
    IF shape.suffix = "M" THEN 5
    ELSE IF shape.suffix = "K" THEN 4
    ELSE IF shape.places = 2 THEN 3
    ELSE IF shape.places = 4 THEN 2
    ELSE IF shape.places = 6 THEN 1
    ELSE 0

\* the bracket whose lower bound is 10^k
RankOfBound(k) ==
    IF k = 6 THEN 5 ELSE IF k = 3 THEN 4 ELSE IF k = 0 THEN 3 ELSE IF k = 0 - 2 THEN 2 ELSE 1

\* the call has ended
Ended == pc \in {"returned", "raised"}

\* |n| / 10^d is beyond what a double holds
Overflows(n, d) == ~LLess(LimbsOf(n.dig), LMulPow10(OVERFLOW_LIMIT, d))

\* the result is that of exactly the bracket of the float amount / 10^d,
\* lower bounds inclusive and upper bounds exclusive; an amount of at least
\* 10^d * t is formatted by the bracket of the threshold t or a higher one,
\* and an amount equal to 10^d * t takes the form of the bracket above t
BracketApplied ==
    LET d == Get(TOKEN_DECIMALS, token_symbol, 18)
    IN  /\ "." \in Chars(result)
        /\ Shape(result) = ExpectedShape(Scaled(amount, d).value)
        /\ \A k \in {0 - 6, 0 - 2, 0, 3, 6} :
              AtLeastPow10(amount, d + k) => Rank(Shape(result)) >= RankOfBound(k)
        /\ amount = Pow10(d + 6) => result = <<"1",".","0","0","M">>
        /\ amount = Pow10(d + 3) => result = <<"1",".","0","0","K">>
        /\ amount = Pow10(d) => result = <<"1",".","0","0">>
        /\ amount = Pow10(d - 2) => result = <<"0",".","0","1","0","0">>
        /\ amount = Pow10(d - 6) => result = <<"0",".","0","0","0","0","0","1">>


\* decimals resolve to 0 for the symbol
ZeroDecimals == token_symbol \in DOMAIN TOKEN_DECIMALS /\ TOKEN_DECIMALS[token_symbol] = 0

\* the result is the plain integer string of the amount
PlainInteger ==
    /\ result = DigitsToStr(amount.dig)
    /\ Chars(result) \cap {".", "K", "M"} = {}

\* a symbol TOKEN_DECIMALS does not know is scaled by 18 decimals: its
\* non-zero amounts are never returned as plain integers
UnknownScaled ==
    (Returned /\ token_symbol \notin DOMAIN TOKEN_DECIMALS /\ ~IsZero(amount))
       => /\ "." \in Chars(result)
          /\ Shape(result) = ExpectedShape(Scaled(amount, 18).value)


\* the transfers of a symbol that the exclusion rule does not skip
CountedPositions(tok) ==
    {i \in 1..Len(transfers) :
        /\ transfers[i].token = tok
        /\ tok # UNISWAP_V3_NFT
        /\ transfers[i].from \notin EXCLUDE_ADDRESSES
        /\ transfers[i].to \notin EXCLUDE_ADDRESSES}

\* the sum, in list order, of the positive amounts at the positions P up to
\* position i, each divided by 10^d
RECURSIVE SumPositive(_, _, _)
SumPositive(P, i, d) ==
    IF i = 0 THEN ZeroInt
    ELSE IF i \in P /\ IsPositive(transfers[i].amount)
         THEN NumAdd(SumPositive(P, i - 1, d), Scaled(transfers[i].amount, d).value)
         ELSE SumPositive(P, i - 1, d)

\* C10: transfer_count is the number of non-excluded transfers of the
\* symbol, those of amount 0 included, which add nothing to total_in and
\* total_out; a symbol has an entry iff it has such a transfer, so the keys
\* of token_flows are among tokens_involved and never the NFT symbol.
C10_TransferCount ==
    Returned =>
        LET flows == result.token_flows
        IN  /\ result.tokens_involved = {transfers[i].token : i \in 1..Len(transfers)}
            /\ DOMAIN flows \subseteq result.tokens_involved
            /\ UNISWAP_V3_NFT \notin DOMAIN flows
            /\ \A tok \in result.tokens_involved :
                  tok \in DOMAIN flows <=> CountedPositions(tok) # {}
            /\ \A tok \in DOMAIN flows :
                  /\ flows[tok].transfer_count = Cardinality(CountedPositions(tok))
                  /\ flows[tok].total_in
                       = SumPositive(CountedPositions(tok), Len(transfers), flows[tok].decimals)
                  /\ flows[tok].total_out
                       = SumPositive(CountedPositions(tok), Len(transfers), flows[tok].decimals)

C10_Witness ==
    /\ Returned
    /\ Len(transfers) = 3
    /\ USDC \in DOMAIN result.token_flows
    /\ result.token_flows[USDC].transfer_count = 2
    /\ \E i \in CountedPositions(USDC) : IsZero(transfers[i].amount)
    /\ \E i \in 1..3 : transfers[i].token = USDC /\ i \notin CountedPositions(USDC)
    /\ NumPositive(result.token_flows[USDC].total_in)

====
